---- MODULE Spec2Model ----
(***************************************************************************)
(* Model of src/utils/firebase/initAuth.ts: the module-level configuration *)
(* object initConfig, the hasInitialized latch and the initAuth wrapper    *)
(* around next-firebase-auth's init.                                       *)
(*                                                                         *)
(* A process is one load of the module followed by any number of calls to  *)
(* initAuth.  process.env is ordinary mutable state of the process, so it  *)
(* may be assigned between calls.  The library's init is external: a call  *)
(* to it either returns or throws, and the model takes both outcomes.      *)
(***************************************************************************)
EXTENDS Naturals, Sequences, FiniteSets

(* ---------------------------------------------------------------------- *)
(* Bounds of the model                                                     *)
(* ---------------------------------------------------------------------- *)

\* calls of initAuth made in one process
MaxCalls == 2

\* assignments to process.env made after the module was loaded
MaxEnvChanges == 1

(* ---------------------------------------------------------------------- *)
(* Values of environment variables                                         *)
(* ---------------------------------------------------------------------- *)

\* process.env.X of a variable that is not set
Undef == "<undefined>"

\* the empty string, the other falsy value a variable can have
Empty == ""

\* JavaScript truthiness of string | undefined, as used by `!x`
Truthy(x) == x # Undef /\ x # Empty

API_KEY      == "NEXT_PUBLIC_FIREBASE_PUBLIC_API_KEY"
PROJECT_ID   == "NEXT_PUBLIC_FIREBASE_PROJECT_ID"
DATABASE_URL == "NEXT_PUBLIC_FIREBASE_DATABASE_URL"
CLIENT_EMAIL == "FIREBASE_CLIENT_EMAIL"
PRIVATE_KEY  == "FIREBASE_PRIVATE_KEY"
COOKIE_SECRET_CURRENT  == "COOKIE_SECRET_CURRENT"
COOKIE_SECRET_PREVIOUS == "COOKIE_SECRET_PREVIOUS"
COOKIE_SECURE == "NEXT_PUBLIC_COOKIE_SECURE"
AUTH_DOMAIN   == "NEXT_PUBLIC_FIREBASE_AUTH_DOMAIN"
STORAGE_BUCKET == "NEXT_PUBLIC_STORAGE_BUCKET"
MESSAGING_SENDER_ID == "NEXT_PUBLIC_MESSAGING_SENDER_ID"

\* the six variables of the server-side presence check
AdminVars == {PROJECT_ID, DATABASE_URL, CLIENT_EMAIL, PRIVATE_KEY,
              COOKIE_SECRET_CURRENT, COOKIE_SECRET_PREVIOUS}

\* the variables a guard of initAuth reads
GuardVars == {API_KEY} \cup AdminVars

\* the variables that are only copied into the configuration
PassVars == {AUTH_DOMAIN, STORAGE_BUCKET, MESSAGING_SENDER_ID}

EnvVars == GuardVars \cup {COOKIE_SECURE} \cup PassVars

\* the values a guard variable ranges over: unset, empty, set
GuardValues == {Undef, Empty, "set"}

\* the values NEXT_PUBLIC_COOKIE_SECURE ranges over
SecureValues == {Undef, "true", "TRUE", "1"}

\* the values a variable ranges over in the model; the variables that are
\* only copied are held at one value
ValuesOf(v) ==
    IF v = COOKIE_SECURE THEN SecureValues
    ELSE IF v \in PassVars THEN {"set"}
    ELSE GuardValues

\* every environment of the model
Envs == { [v \in EnvVars |-> IF v \in GuardVars THEN g[v]
                             ELSE IF v = COOKIE_SECURE THEN s
                             ELSE "set"] :
            g \in [GuardVars -> GuardValues], s \in SecureValues }

\* the environments in which each guard variable is either unset or set.
\* Spec loads the module in one of these and reaches empty values by
\* assignment; SpecFixedEnv loads it in every environment of Envs.
LoadEnvs == {e \in Envs : \A v \in GuardVars : e[v] # Empty}

(* ---------------------------------------------------------------------- *)
(* The configuration object                                                *)
(* ---------------------------------------------------------------------- *)

TWELVE_DAYS_IN_MS == 12 * 60 * 60 * 24 * 1000

\* result of getPrivateKey(), a function of another module: an opaque value
getPrivateKey == "<getPrivateKey()>"

\* mutant: the flag read loosely, any spelling of a true value counting
cookieSecureLoose(e) == e[COOKIE_SECURE] \in {"true", "TRUE", "1"}

\* cookies.secure: the strict comparison with the string "true"
cookieSecure(e) == e[COOKIE_SECURE] = "true"

\* the object literal assigned to initConfig, evaluated in environment e
BuildConfig(e) ==
    [ authPageURL |-> "/log-in",
      appPageURL |-> "/",
      loginAPIEndpoint |-> "/api/log-in",
      logoutAPIEndpoint |-> "/api/log-out",
      firebaseAdminInitConfig |->
        [ credential |-> [ projectId |-> e[PROJECT_ID],
                           clientEmail |-> e[CLIENT_EMAIL],
                           privateKey |-> getPrivateKey ],
          databaseURL |-> e[DATABASE_URL],
          storageBucket |-> e[STORAGE_BUCKET] ],
      firebaseClientInitConfig |->
        [ apiKey |-> e[API_KEY],
          authDomain |-> e[AUTH_DOMAIN],
          databaseURL |-> e[DATABASE_URL],
          projectId |-> e[PROJECT_ID],
          storageBucket |-> e[STORAGE_BUCKET],
          messagingSenderId |-> e[MESSAGING_SENDER_ID] ],
      cookies |->
        [ name |-> "AgaveAuth",
          keys |-> <<e[COOKIE_SECRET_CURRENT], e[COOKIE_SECRET_PREVIOUS]>>,
          httpOnly |-> TRUE,
          maxAge |-> TWELVE_DAYS_IN_MS,
          overwrite |-> TRUE,
          path |-> "/",
          sameSite |-> "Strict",
          secure |-> cookieSecure(e),
          signed |-> TRUE ] ]

(* ---------------------------------------------------------------------- *)
(* State                                                                   *)
(* ---------------------------------------------------------------------- *)

VARIABLES
    env,            \* process.env
    windowDefined,  \* typeof window !== "undefined": the process is a browser
    initConfig,     \* the module-level constant initConfig
    hasInitialized, \* the module-level latch
    pc,             \* "idle", or "init" while a call of initAuth is inside init
    initArgs,       \* the arguments init was invoked with, in order
    initReturned,   \* how many invocations of init returned normally
    warned,         \* console.warn messages of the current or latest call
    outcome,        \* how the latest finished call ended: "none", "returned", "threw"
    calls,          \* calls of initAuth started
    latchBefore,    \* hasInitialized as the current or latest call found it
    callEnv,        \* process.env as the current or latest call found it
    loadEnv,        \* process.env as it was when the module was loaded
    envChanges      \* assignments to process.env since then

vars == <<env, windowDefined, initConfig, hasInitialized, pc, initArgs,
          initReturned, warned, outcome, calls, latchBefore, callEnv, loadEnv,
          envChanges>>

WarnApiKey ==
    "next-firebase-auth not initialized: missing NEXT_PUBLIC_FIREBASE_PUBLIC_API_KEY. See .env.local.example."

WarnServer ==
    "next-firebase-auth not initialized on server: missing Firebase Admin / cookie env vars. See .env.local.example."

\* module load in an environment of E: initConfig is built, the latch is unset
InitIn(E) ==
    /\ env \in E
    /\ windowDefined \in BOOLEAN
    /\ initConfig = BuildConfig(env)
    /\ hasInitialized = FALSE
    /\ pc = "idle"
    /\ initArgs = <<>>
    /\ initReturned = 0
    /\ warned = <<>>
    /\ outcome = "none"
    /\ calls = 0
    /\ latchBefore = FALSE
    /\ callEnv = env
    /\ loadEnv = env
    /\ envChanges = 0

Init == InitIn(LoadEnvs)

InitAllEnvs == InitIn(Envs)

\* process.env[v] = x (x = Undef: delete process.env[v]), between calls
SetEnv(v, x) ==
    /\ pc = "idle"
    /\ envChanges < MaxEnvChanges
    /\ env[v] # x
    /\ env' = [env EXCEPT ![v] = x]
    /\ envChanges' = envChanges + 1
    /\ UNCHANGED <<windowDefined, initConfig, hasInitialized, pc, initArgs,
                   initReturned, warned, outcome, calls, latchBefore, callEnv,
                   loadEnv>>

\* mutant: no latch test, every call goes on to the presence checks
AlreadyInitializedNever == FALSE

\* `if (hasInitialized) return;`
AlreadyInitialized == hasInitialized

\* mutant: only an unset key counts as missing, an empty one passes
apiKeyMissingUnsetOnly(e) == e[API_KEY] = Undef

\* `!apiKey`, apiKey read from the environment at the call
apiKeyMissing(e) == ~Truthy(e[API_KEY])

\* mutant: the Admin check made in the browser too
isServerAlways == TRUE

\* `typeof window === "undefined"`
isServer == ~windowDefined

\* mutant: the check forgets the previous cookie secret
missingAdminNoPrevious(e) ==
    \/ ~Truthy(e[PROJECT_ID])
    \/ ~Truthy(e[DATABASE_URL])
    \/ ~Truthy(e[CLIENT_EMAIL])
    \/ ~Truthy(e[PRIVATE_KEY])
    \/ ~Truthy(e[COOKIE_SECRET_CURRENT])

\* the server-side presence check of initAuth
missingAdmin(e) ==
    \/ ~Truthy(e[PROJECT_ID])
    \/ ~Truthy(e[DATABASE_URL])
    \/ ~Truthy(e[CLIENT_EMAIL])
    \/ ~Truthy(e[PRIVATE_KEY])
    \/ ~Truthy(e[COOKIE_SECRET_CURRENT])
    \/ ~Truthy(e[COOKIE_SECRET_PREVIOUS])

\* the early return of an initialized process: nothing happens
ReturnAtOnce ==
    /\ warned' = <<>>
    /\ outcome' = "returned"
    /\ UNCHANGED <<pc, initArgs, hasInitialized>>

\* mutant: a skipped call sets the latch, so that the skip is remembered
SkipSticky(msg) ==
    /\ warned' = <<msg>>
    /\ outcome' = "returned"
    /\ hasInitialized' = TRUE
    /\ UNCHANGED <<pc, initArgs>>

\* `console.warn(msg); return;`
Skip(msg) ==
    /\ warned' = <<msg>>
    /\ outcome' = "returned"
    /\ UNCHANGED <<pc, initArgs, hasInitialized>>

\* mutant: the configuration is rebuilt from the environment at the call
InvokeInitRebuilt ==
    /\ warned' = <<>>
    /\ initArgs' = Append(initArgs, BuildConfig(env))
    /\ pc' = "init"
    /\ UNCHANGED <<outcome, hasInitialized>>

\* mutant: the latch is set before init is entered
InvokeInitLatchFirst ==
    /\ warned' = <<>>
    /\ initArgs' = Append(initArgs, initConfig)
    /\ pc' = "init"
    /\ hasInitialized' = TRUE
    /\ UNCHANGED outcome

\* `init(initConfig)`: control enters the library, the latch is still unset
InvokeInit ==
    /\ warned' = <<>>
    /\ initArgs' = Append(initArgs, initConfig)
    /\ pc' = "init"
    /\ UNCHANGED <<outcome, hasInitialized>>

\* a call of initAuth, up to its early return or to its invocation of init
initAuth ==
    /\ pc = "idle"
    /\ calls < MaxCalls
    /\ calls' = calls + 1
    /\ latchBefore' = hasInitialized
    /\ callEnv' = env
    /\ IF AlreadyInitialized THEN ReturnAtOnce
       ELSE IF apiKeyMissing(env) THEN Skip(WarnApiKey)
       ELSE IF isServer /\ missingAdmin(env) THEN Skip(WarnServer)
       ELSE InvokeInit
    /\ UNCHANGED <<env, windowDefined, initConfig, initReturned, loadEnv,
                   envChanges>>

\* init returns: `hasInitialized = true`, and initAuth returns
initReturns ==
    /\ pc = "init"
    /\ initReturned' = initReturned + 1
    /\ hasInitialized' = TRUE
    /\ outcome' = "returned"
    /\ pc' = "idle"
    /\ UNCHANGED <<env, windowDefined, initConfig, initArgs, warned, calls,
                   latchBefore, callEnv, loadEnv, envChanges>>

\* init throws: initAuth has no handler, the exception leaves it
initThrows ==
    /\ pc = "init"
    /\ outcome' = "threw"
    /\ pc' = "idle"
    /\ UNCHANGED <<env, windowDefined, initConfig, hasInitialized, initArgs,
                   initReturned, warned, calls, latchBefore, callEnv, loadEnv,
                   envChanges>>

\* an assignment to a variable of process.env
ChangeEnv == \E v \in EnvVars : \E x \in ValuesOf(v) : SetEnv(v, x)

Next == initAuth \/ initReturns \/ initThrows \/ ChangeEnv

\* calls of initAuth in a process whose environment is assigned between them
Spec == Init /\ [][Next]_vars

NextFixedEnv == initAuth \/ initReturns \/ initThrows

\* calls of initAuth in every environment, the environment left as loaded
SpecFixedEnv == InitAllEnvs /\ [][NextFixedEnv]_vars

(* ---------------------------------------------------------------------- *)
(* Vocabulary of the properties                                            *)
(* ---------------------------------------------------------------------- *)

\* variable v is absent or empty in environment e
Missing(e, v) == e[v] = Undef \/ e[v] = Empty

\* variable v is present and non-empty in environment e
Present(e, v) == ~Missing(e, v)

\* the six variables the server needs besides the public API key
SixServerVars == {"NEXT_PUBLIC_FIREBASE_PROJECT_ID",
                  "NEXT_PUBLIC_FIREBASE_DATABASE_URL",
                  "FIREBASE_CLIENT_EMAIL", "FIREBASE_PRIVATE_KEY",
                  "COOKIE_SECRET_CURRENT", "COOKIE_SECRET_PREVIOUS"}

\* the variables e lacks for initAuth to go through in this process
Lacking(e) ==
    \/ Missing(e, API_KEY)
    \/ ~windowDefined /\ \E v \in SixServerVars : Missing(e, v)

\* this step is the start of a call of initAuth
CallStarts == calls' = calls + 1

\* this step invokes init / does not invoke init
InitInvoked == Len(initArgs') = Len(initArgs) + 1
NoInit == initArgs' = initArgs

\* this step ends a call of initAuth by a normal return
ReturnsNormally == pc' = "idle" /\ outcome' = "returned"

\* the latest call has ended, it was the first to invoke init, and at least
\* one call came before it.  The latch was unset when it started and the
\* latch is never reset, so each earlier call ended in a warning.
SkippedThenInvoked ==
    /\ pc = "idle"
    /\ calls >= 2
    /\ Len(initArgs) = 1
    /\ ~latchBefore
    /\ warned = <<>>

(* ---------------------------------------------------------------------- *)
(* C1                                                                      *)
(* ---------------------------------------------------------------------- *)

\* C1: once a call has set the latch, every later call of initAuth returns at
\* once, without invoking init and without a warning, whatever process.env
\* holds at that call; hence init completes at most once in a process.
C1_CallOnce ==
    /\ [](initReturned <= 1)
    /\ [][(CallStarts /\ hasInitialized) =>
            (NoInit /\ warned' = <<>> /\ ReturnsNormally /\ hasInitialized')]_vars

\* a call that found the latch set and the API key gone has returned quietly
C1_Witness ==
    /\ pc = "idle"
    /\ latchBefore
    /\ Missing(callEnv, API_KEY)
    /\ Present(loadEnv, API_KEY)
    /\ Len(initArgs) = 1
    /\ warned = <<>>
    /\ outcome = "returned"

(* ---------------------------------------------------------------------- *)
(* C2                                                                      *)
(* ---------------------------------------------------------------------- *)

\* C2 as stated: a call made while the public API key is absent or empty
\* does not invoke init, leaves the latch false, emits exactly the
\* missing-API-key warning and returns normally.
C2_Original ==
    [][(CallStarts /\ Missing(env, API_KEY)) =>
         (NoInit /\ ~hasInitialized' /\ warned' = <<WarnApiKey>>
          /\ ReturnsNormally)]_vars

\* C2: a call made while the latch is unset and the public API key is absent
\* or empty does not invoke init, leaves the latch false, emits exactly the
\* missing-API-key warning (on the client and on the server, whatever the
\* other variables are) and returns normally.
C2_NoOpWithoutApiKey ==
    [][(CallStarts /\ ~hasInitialized /\ Missing(env, API_KEY)) =>
         (NoInit /\ ~hasInitialized' /\ warned' = <<WarnApiKey>>
          /\ ReturnsNormally)]_vars

\* a server call with the API key empty and Admin variables missing too has
\* emitted the API-key warning alone
C2_Witness ==
    /\ pc = "idle"
    /\ calls >= 1
    /\ ~latchBefore
    /\ ~windowDefined
    /\ callEnv[API_KEY] = Empty
    /\ \E v \in SixServerVars : Missing(callEnv, v)
    /\ warned = <<WarnApiKey>>
    /\ initArgs = <<>>
    /\ ~hasInitialized

(* ---------------------------------------------------------------------- *)
(* C3                                                                      *)
(* ---------------------------------------------------------------------- *)

\* C3: whatever the environment and whatever init does, a call of initAuth
\* returns normally: no call ends by throwing.
C3_NeverThrows == outcome # "threw"

(* ---------------------------------------------------------------------- *)
(* C4                                                                      *)
(* ---------------------------------------------------------------------- *)

\* C4: on the server, with the latch unset and the public API key present, a
\* call invokes init only if all six server variables are present and
\* non-empty; if any is missing it emits the server warning, does not invoke
\* init and leaves the latch false.
C4_ServerNeedsAllSix ==
    [][(CallStarts /\ ~windowDefined /\ ~hasInitialized
        /\ Present(env, API_KEY)) =>
         /\ InitInvoked => \A v \in SixServerVars : Present(env, v)
         /\ (\E v \in SixServerVars : Missing(env, v)) =>
              (warned' = <<WarnServer>> /\ NoInit /\ ~hasInitialized'
               /\ ReturnsNormally)]_vars

\* a server call that lacked only the previous cookie secret was skipped
C4_Witness ==
    /\ pc = "idle"
    /\ calls >= 1
    /\ ~windowDefined
    /\ ~latchBefore
    /\ Present(callEnv, API_KEY)
    /\ {v \in SixServerVars : Missing(callEnv, v)} = {COOKIE_SECRET_PREVIOUS}
    /\ warned = <<WarnServer>>
    /\ initArgs = <<>>
    /\ ~hasInitialized

(* ---------------------------------------------------------------------- *)
(* C5                                                                      *)
(* ---------------------------------------------------------------------- *)

\* C5: on the client, with the latch unset, a call invokes init if and only
\* if the public API key is present, whatever the six server variables are,
\* and the server warning is never emitted.
C5_ClientIgnoresAdmin ==
    /\ [](windowDefined => warned # <<WarnServer>>)
    /\ [][(CallStarts /\ windowDefined /\ ~hasInitialized) =>
            (InitInvoked <=> Present(env, API_KEY))]_vars

\* a client call with all six server variables unset has invoked init
C5_Witness ==
    /\ windowDefined
    /\ ~latchBefore
    /\ \A v \in SixServerVars : callEnv[v] = Undef
    /\ Len(initArgs) = 1
    /\ hasInitialized

(* ---------------------------------------------------------------------- *)
(* C6                                                                      *)
(* ---------------------------------------------------------------------- *)

\* a call that lacks variables warns once, does not invoke init and leaves
\* the latch false, however often it is repeated; a call that finds the
\* latch unset and lacks nothing invokes init
SkipIsNotSticky ==
    /\ (CallStarts /\ ~hasInitialized /\ Lacking(env)) =>
         (Len(warned') = 1 /\ NoInit /\ ~hasInitialized' /\ ReturnsNormally)
    /\ (CallStarts /\ ~hasInitialized /\ ~Lacking(env)) =>
         (InitInvoked /\ initArgs'[Len(initArgs')] = initConfig)

\* C6 as stated: a skipped call leaves the latch false; once the missing
\* variables are provided, the next call invokes init and sets the latch;
\* calls repeated while variables are missing each warn and never invoke init.
C6_Original ==
    /\ [](SkippedThenInvoked => hasInitialized)
    /\ [][SkipIsNotSticky]_vars

\* C6: a skipped call leaves the latch false; once the missing variables are
\* provided, the next call invokes init, and sets the latch exactly when init
\* returns normally (an init that throws leaves it false); calls repeated
\* while variables are missing each warn and never invoke init.
C6_SkipNotSticky ==
    /\ [](SkippedThenInvoked => (hasInitialized <=> outcome = "returned"))
    /\ [][SkipIsNotSticky]_vars

\* after a skipped call the variables were provided, and the next call has
\* invoked init and set the latch
C6_Witness ==
    /\ SkippedThenInvoked
    /\ Lacking(loadEnv)
    /\ ~Lacking(callEnv)
    /\ hasInitialized

(* ---------------------------------------------------------------------- *)
(* C7                                                                      *)
(* ---------------------------------------------------------------------- *)

\* C7: initConfig is the configuration built from the environment as it was
\* when the module was loaded, no step changes it, and every invocation of
\* init received exactly that object.
C7_ConfigPassedUnmodified ==
    /\ [](/\ initConfig = BuildConfig(loadEnv)
          /\ \A i \in 1..Len(initArgs) : initArgs[i] = initConfig)
    /\ [][initConfig' = initConfig]_vars

\* init was invoked by a call whose environment would have given another
\* configuration than the one built at load
C7_Witness ==
    /\ Len(initArgs) >= 1
    /\ ~latchBefore
    /\ warned = <<>>
    /\ calls >= 2
    /\ BuildConfig(callEnv) # initConfig

(* ---------------------------------------------------------------------- *)
(* C8                                                                      *)
(* ---------------------------------------------------------------------- *)

\* C8: in every configuration passed to init, cookies.secure is true if and
\* only if NEXT_PUBLIC_COOKIE_SECURE was exactly "true" when the module was
\* loaded; unset, "TRUE", "1" and every other value give false.
C8_SecureIffExactlyTrue ==
    \A i \in 1..Len(initArgs) :
        initArgs[i].cookies.secure <=> loadEnv["NEXT_PUBLIC_COOKIE_SECURE"] = "true"

\* init was invoked with secure false although the variable was "TRUE"
C8_Witness ==
    /\ Len(initArgs) >= 1
    /\ loadEnv["NEXT_PUBLIC_COOKIE_SECURE"] = "TRUE"
    /\ initArgs[1].cookies.secure = FALSE

(* ---------------------------------------------------------------------- *)
(* C9                                                                      *)
(* ---------------------------------------------------------------------- *)

\* C9: the latch is true only if init was invoked and returned normally; it
\* is unset while init runs and is set by the step in which init returns, so
\* that an init that throws leaves it false and the next call that lacks
\* nothing invokes init again; once true it never becomes false.
C9_Latch ==
    /\ [](/\ hasInitialized => initReturned >= 1
          /\ pc = "init" => ~hasInitialized)
    /\ [][/\ hasInitialized => hasInitialized'
          /\ (~hasInitialized /\ hasInitialized') =>
                (pc = "init" /\ initReturned' = initReturned + 1)
          /\ (pc = "init" /\ outcome' = "threw") => ~hasInitialized'
          /\ (CallStarts /\ outcome = "threw" /\ ~Lacking(env)) =>
                InitInvoked]_vars

\* init threw in one call and returned in the next, which set the latch
C9_Witness ==
    /\ pc = "idle"
    /\ Len(initArgs) = 2
    /\ initReturned = 1
    /\ hasInitialized

(* ---------------------------------------------------------------------- *)
(* C10                                                                     *)
(* ---------------------------------------------------------------------- *)

\* C10: every configuration passed to init has a non-empty
\* firebaseClientInitConfig.apiKey and, on the server, a non-empty
\* credential.projectId, credential.clientEmail, databaseURL and two
\* non-empty cookie keys, also when process.env changed after module load.
C10_GuardConfigAgree ==
    \A i \in 1..Len(initArgs) :
        LET c == initArgs[i]
            Filled(x) == x # Undef /\ x # Empty
        IN  /\ Filled(c.firebaseClientInitConfig.apiKey)
            /\ ~windowDefined =>
                 /\ Filled(c.firebaseAdminInitConfig.credential.projectId)
                 /\ Filled(c.firebaseAdminInitConfig.credential.clientEmail)
                 /\ Filled(c.firebaseAdminInitConfig.databaseURL)
                 /\ Filled(c.cookies.keys[1])
                 /\ Filled(c.cookies.keys[2])

====
